---- MODULE Spec2Model ----
(***************************************************************************)
(* chittyscrape: the Hono worker of src/src/index.ts (admission gate,      *)
(* generic dispatch route, gap tracker) over the ScraperCatalog and the    *)
(* SCRAPE_KV key-value store.                                              *)
(*                                                                         *)
(* Strings are sequences of one-character strings.  A value stored in KV   *)
(* is a record: [chars |-> s] for plain text s, [toks |-> t] for text that *)
(* lexes into the JSON lexemes t.  One action is the code that runs        *)
(* between two awaits of a request (JavaScript runs it without             *)
(* interleaving); requests interleave at their awaits.                     *)
(***************************************************************************)
EXTENDS Integers, Sequences, FiniteSets, TLC

\* ---------------------------------------------------------------- bounds
NumReqs == 3
MaxServed == 2
MaxClock == 3
MaxTokenLen == 2
MaxCorrupt == 1
MaxRegs == 3
MaxCandidates == 3

\* ------------------------------------------------------- program constants
MaxPortalIdLen == 64
BearerPrefixLen == 7

Reqs == 1..NumReqs

\* ---------------------------------------------------------------- strings
RECURSIVE Rep(_, _)
Rep(c, n) == IF n = 0 THEN <<>> ELSE <<c>> \o Rep(c, n - 1)

StartsWith(s, prefix) ==
    /\ Len(s) >= Len(prefix)
    /\ SubSeq(s, 1, Len(prefix)) = prefix

Slice(s, n) == SubSeq(s, n + 1, Len(s))

LowerChars == {"a", "b", "c", "d", "e", "f", "g", "h", "i", "j", "k", "l", "m",
               "n", "o", "p", "q", "r", "s", "t", "u", "v", "w", "x", "y", "z"}
DigitChars == {"0", "1", "2", "3", "4", "5", "6", "7", "8", "9"}

\* /^[a-z0-9-]{1,64}$/ ; without the m flag $ matches only at the very end.
PORTAL_ID_RE_NoBound(id) ==
    /\ Len(id) >= 1
    /\ \A i \in 1..Len(id) : id[i] \in LowerChars \cup DigitChars \cup {"-"}

PORTAL_ID_RE(id) ==
    /\ Len(id) \in 1..MaxPortalIdLen
    /\ \A i \in 1..Len(id) : id[i] \in LowerChars \cup DigitChars \cup {"-"}

\* TextEncoder.encode: UTF-8.  "e'" stands for U+00E9, one UTF-16 code unit
\* that encodes to two bytes.
Utf8(c) ==
    CASE c = "a" -> <<97>>
      [] c = "b" -> <<98>>
      [] c = "e'" -> <<195, 169>>
      [] OTHER -> <<63>>

RECURSIVE encode(_)
encode(s) == IF s = <<>> THEN <<>> ELSE Utf8(Head(s)) \o encode(Tail(s))

\* crypto.subtle.timingSafeEqual of the Workers runtime: a TypeError when the
\* two buffers differ in byte length, else whether the bytes are equal.
subtleTimingSafeEqual(bufA, bufB) ==
    IF Len(bufA) # Len(bufB) THEN "throw"
    ELSE IF bufA = bufB THEN "true" ELSE "false"

timingSafeEqual_NoLengthCheck(a, b) ==
    IF subtleTimingSafeEqual(encode(a), encode(b)) = "false" THEN "false" ELSE "true"

timingSafeEqual(a, b) ==
    IF Len(a) # Len(b) THEN "false"
    ELSE subtleTimingSafeEqual(encode(a), encode(b))

\* ------------------------------------------------------------------- JSON
\* Lexemes of a JSON text.
LBrace == [k |-> "{"]
RBrace == [k |-> "}"]
Key(name) == [k |-> "key", name |-> name]
NumLit(n) == [k |-> "num", n |-> n]
StrLit(s) == [k |-> "str", s |-> s]
NullLit == [k |-> "null"]

\* JavaScript values.
JsNumber(n) == [t |-> "number", n |-> n]
JsString(s) == [t |-> "string", s |-> s]
JsNull == [t |-> "null"]
JsUndefined == [t |-> "undefined"]
JsObject(f) == [t |-> "object", f |-> f]
JsThrow == [t |-> "throw"]

IsScalarLit(x) == x.k \in {"num", "str", "null"}

ScalarValue(x) ==
    CASE x.k = "num" -> JsNumber(x.n)
      [] x.k = "str" -> JsString(x.s)
      [] OTHER -> JsNull

\* The members <<key, value, key, value, ...>> of an object literal; a
\* repeated key keeps its last value.
MembersOk(m) ==
    /\ Len(m) % 2 = 0
    /\ \A i \in 1..Len(m) :
          IF i % 2 = 1 THEN m[i].k = "key" ELSE IsScalarLit(m[i])

MemberFields(m) ==
    LET names == {m[i].name : i \in {j \in 1..Len(m) : j % 2 = 1}}
        lastOf(nm) == CHOOSE i \in 1..Len(m) :
                          /\ i % 2 = 1 /\ m[i].name = nm
                          /\ \A j \in 1..Len(m) :
                                (j % 2 = 1 /\ m[j].name = nm) => j <= i
    IN  [nm \in names |-> ScalarValue(m[lastOf(nm) + 1])]

\* JSON.parse of a stored text: the value, or JsThrow for a SyntaxError.
JSONparse(text) ==
    IF "toks" \notin DOMAIN text THEN JsThrow
    ELSE LET t == text.toks IN
         IF Len(t) = 1 /\ IsScalarLit(t[1]) THEN ScalarValue(t[1])
         ELSE IF /\ Len(t) >= 2
                 /\ t[1] = LBrace
                 /\ t[Len(t)] = RBrace
                 /\ MembersOk(SubSeq(t, 2, Len(t) - 1))
              THEN JsObject(MemberFields(SubSeq(t, 2, Len(t) - 1)))
              ELSE JsThrow

\* parsed.<name> for a parsed value that is not null (null.<name> throws).
Prop(v, name) ==
    IF v.t = "object" /\ name \in DOMAIN v.f THEN v.f[name] ELSE JsUndefined

\* JSON.stringify(gapData) of { count, firstRequested, lastRequested }.
JSONstringify(gapData) ==
    [toks |-> <<LBrace,
                Key("count"), NumLit(gapData.count),
                Key("firstRequested"), StrLit(gapData.firstRequested),
                Key("lastRequested"), StrLit(gapData.lastRequested),
                RBrace>>]

\* new Date(t).toISOString(): fixed-width digits, so that string order is
\* time order (the constant date part is left out).
DigitOf(n) == <<"0", "1", "2", "3", "4", "5", "6", "7", "8", "9">>[n + 1]
toISOString(t) == <<"T", DigitOf((t \div 10) % 10), DigitOf(t % 10), "Z">>

\* JavaScript truthiness of a string-or-null returned by KV.get.
KvNull == [null |-> TRUE]
Truthy(text) == text # KvNull /\ text # [chars |-> <<>>]

\* ---------------------------------------------------------------- catalog
\* ScraperCatalog: a Map keeps its keys in insertion order, and set() on a
\* present key keeps the key's place.
register_AlwaysAppend(scrapers, scraper) == Append(scrapers, scraper)

register_MoveToEnd(scrapers, scraper) ==
    Append(SelectSeq(scrapers, LAMBDA s : s.meta.id # scraper.meta.id), scraper)

register(scrapers, scraper) ==
    IF \E i \in 1..Len(scrapers) : scrapers[i].meta.id = scraper.meta.id
    THEN [i \in 1..Len(scrapers) |->
             IF scrapers[i].meta.id = scraper.meta.id THEN scraper ELSE scrapers[i]]
    ELSE Append(scrapers, scraper)

CatalogHas_Never(scrapers, portalId) == FALSE

CatalogHas(scrapers, portalId) ==
    \E i \in 1..Len(scrapers) : scrapers[i].meta.id = portalId

Scraper(id, category) == [meta |-> [id |-> id, category |-> category]]

IdCourtDocket == <<"c","o","u","r","t","-","d","o","c","k","e","t">>
IdCookCountyTax == <<"c","o","o","k","-","c","o","u","n","t","y","-","t","a","x">>
IdMrCooper == <<"m","r","-","c","o","o","p","e","r">>
IdPeoplesGas == <<"p","e","o","p","l","e","s","-","g","a","s">>
IdComed == <<"c","o","m","e","d">>
IdCourtNameSearch == <<"c","o","u","r","t","-","n","a","m","e","-","s","e","a","r","c","h">>

get(scrapers, portalId) ==
    IF \E i \in 1..Len(scrapers) : scrapers[i].meta.id = portalId
    THEN scrapers[CHOOSE i \in 1..Len(scrapers) : scrapers[i].meta.id = portalId]
    ELSE JsUndefined

\* The register calls made at module load, in order.
Registrations ==
    <<Scraper(IdCourtDocket, "court"),
      Scraper(IdCookCountyTax, "tax"),
      Scraper(IdMrCooper, "mortgage"),
      Scraper(IdPeoplesGas, "utility"),
      Scraper(IdComed, "utility"),
      Scraper(IdCourtNameSearch, "court")>>

\* The catalog built at module load.
BuiltCatalog ==
    register(register(register(register(register(register(<<>>,
        Scraper(IdCourtDocket, "court")),
        Scraper(IdCookCountyTax, "tax")),
        Scraper(IdMrCooper, "mortgage")),
        Scraper(IdPeoplesGas, "utility")),
        Scraper(IdComed, "utility")),
        Scraper(IdCourtNameSearch, "court"))

\* ----------------------------------------------------------- scraper base
\* wrapResult(portal, success, data?, error?) at clock time `now`: an argument
\* that is not passed is undefined, and the object literal carries it so.
wrapResult_Swapped(portal, success, data, error, now) ==
    [success |-> success, data |-> error, error |-> data,
     method |-> "scrape", portal |-> portal, scrapedAt |-> toISOString(now)]

wrapResult_DefaultError(portal, success, data, error, now) ==
    [success |-> success, data |-> data,
     error |-> IF ~success /\ error = JsUndefined
               THEN JsString(<<"f","a","i","l","e","d">>) ELSE error,
     method |-> "scrape", portal |-> portal, scrapedAt |-> toISOString(now)]

wrapResult(portal, success, data, error, now) ==
    [success |-> success, data |-> data, error |-> error,
     method |-> "scrape", portal |-> portal, scrapedAt |-> toISOString(now)]

\* An Error object.
Error(message) == [message |-> message, stack |-> <<"a","t"," ">> \o message]

\* ------------------------------------------------------------ gap tracker
GapPrefix == <<"g","a","p",":">>
gapKey(portalId) == GapPrefix \o portalId

ServiceTokenKey ==
    <<"s","c","r","a","p","e",":","s","e","r","v","i","c","e","_","t","o","k","e","n">>

FreshGap(now) == [count |-> 1, firstRequested |-> now, lastRequested |-> now]

\* The record a miss writes, from the text it read and its timestamp.
GapData_Overwrite(existing, now) == FreshGap(now)

GapData_ResetMalformed(existing, now) ==
    IF ~Truthy(existing) THEN FreshGap(now)
    ELSE LET parsed == JSONparse(existing) IN
         IF \/ parsed.t \in {"throw", "null"}
            \/ Prop(parsed, "count").t # "number"
            \/ Prop(parsed, "firstRequested").t # "string"
         THEN FreshGap(now)
         ELSE [count |-> Prop(parsed, "count").n + 1,
               firstRequested |-> Prop(parsed, "firstRequested").s,
               lastRequested |-> now]

GapData_FirstIsNow(existing, now) ==
    IF ~Truthy(existing) THEN FreshGap(now)
    ELSE LET parsed == JSONparse(existing) IN
         IF parsed.t \in {"throw", "null"} THEN FreshGap(now)
         ELSE LET count == Prop(parsed, "count") IN
              [count |-> (IF count.t = "number" THEN count.n ELSE 0) + 1,
               firstRequested |-> now,
               lastRequested |-> now]

GapData_KeepCount(existing, now) ==
    IF ~Truthy(existing) THEN FreshGap(now)
    ELSE LET parsed == JSONparse(existing) IN
         IF parsed.t \in {"throw", "null"} THEN FreshGap(now)
         ELSE LET count == Prop(parsed, "count")
                  first == Prop(parsed, "firstRequested")
              IN  [count |-> IF count.t = "number" THEN count.n ELSE 1,
                   firstRequested |-> IF first.t = "string" THEN first.s ELSE now,
                   lastRequested |-> now]

GapData_KeepLast(existing, now) ==
    IF ~Truthy(existing) THEN FreshGap(now)
    ELSE LET parsed == JSONparse(existing) IN
         IF parsed.t \in {"throw", "null"} THEN FreshGap(now)
         ELSE LET count == Prop(parsed, "count")
                  first == Prop(parsed, "firstRequested")
                  last == Prop(parsed, "lastRequested")
              IN  [count |-> (IF count.t = "number" THEN count.n ELSE 0) + 1,
                   firstRequested |-> IF first.t = "string" THEN first.s ELSE now,
                   lastRequested |-> IF last.t = "string" THEN last.s ELSE now]

GapData(existing, now) ==
    IF ~Truthy(existing) THEN FreshGap(now)
    ELSE LET parsed == JSONparse(existing) IN
         IF parsed.t \in {"throw", "null"} THEN FreshGap(now)
         ELSE LET count == Prop(parsed, "count")
                  first == Prop(parsed, "firstRequested")
                  prevCount == IF count.t = "number" THEN count.n ELSE 0
                  prevFirst == IF first.t = "string" THEN first.s ELSE now
              IN  [count |-> prevCount + 1,
                   firstRequested |-> prevFirst,
                   lastRequested |-> now]

\* ------------------------------------------------------------------ state
VARIABLES
    catalog,    \* the ScraperCatalog: scrapers in insertion order
    kv,         \* SCRAPE_KV: key -> stored text (absent keys are not in its domain)
    clock,      \* the latest time any request has read from the system clock
    req,        \* req[p]: the request p carries (path, portal id, header, body)
    pc,         \* pc[p]: the await request p is suspended at
    resp,       \* resp[p]: the response sent to p
    valid,      \* valid[p]: what p's gate read under scrape:service_token
    pending,    \* pending[p]: the locals p's handler holds across an await
    trace,      \* trace[p]: the effects p has performed, in order
    hist,       \* hist[key]: what has happened to a gap key so far
    corrupts,   \* writes made to gap keys by writers other than this service
    served,     \* requests answered and done with
    regLog,     \* every scraper handed to catalog.register, in call order
    wrapped,    \* the wrapResult call under way: its arguments and its result
    lookup,     \* the resolveSelector call under way: its page, position, outcome
    run         \* the plugin execution under way: its position and its session

vars == <<catalog, kv, clock, req, pc, resp, valid, pending, trace, hist, corrupts,
          served, regLog, wrapped, lookup, run>>

\* The state of the catalog's log and of the scraper-base helpers, which no
\* request handler touches.
library == <<regLog, wrapped, lookup, run>>

\* ----------------------------------------------------------------- inputs
IdX == <<"x">>
IdUpper == <<"C","o","u","r","t"," ","D","o","c","k","e","t">>
IdSlash == <<"a","/","b">>
IdNewline == <<"x","\n">>
Id64 == Rep("a", MaxPortalIdLen)
Id65 == Rep("a", MaxPortalIdLen + 1)
Id100 == Rep("a", 100)

AllIds == {IdX, Id64, Id65, Id100, IdUpper, IdSlash, IdNewline, IdCourtDocket, IdComed}

\* The ids of the pool that dispatch treats as a miss.
MissIds == {id \in AllIds : PORTAL_ID_RE(id) /\ ~CatalogHas(BuiltCatalog, id)}
GapKeys == {gapKey(id) : id \in MissIds}

PathHealth == "/health"
PathStatus == "/api/v1/status"
PathCapabilities == "/api/v1/capabilities"
PathGaps == "/api/v1/gaps"
PathScrape == "/api/scrape/:portalId"
PathStatusSlash == "/api/v1/status/"

\* The paths the pattern '/api/*' matches.
ApiPaths == {PathStatus, PathCapabilities, PathGaps, PathScrape, PathStatusSlash}
unauthPaths_StatusOnly == {PathStatus}

unauthPaths == {PathStatus, PathCapabilities}

BearerPrefix == <<"B","e","a","r","e","r"," ">>
NoHeader == [present |-> FALSE]
Header(v) == [present |-> TRUE, value |-> v]
Bearer(token) == Header(BearerPrefix \o token)

TokenChars == {"a", "e'"}
RECURSIVE TokensOfLen(_)
TokensOfLen(n) ==
    IF n = 0 THEN {<<>>}
    ELSE {<<c>> \o t : c \in TokenChars, t \in TokensOfLen(n - 1)}
Tokens == UNION {TokensOfLen(n) : n \in 0..MaxTokenLen}

GoodToken == <<"a", "e'">>

BadSchemeHeaders ==
    {NoHeader,
     Header(<<"b","e","a","r","e","r"," ">> \o GoodToken),
     Header(<<"B","e","a","r","e","r">> \o GoodToken),
     Header(<<"B","a","s","i","c"," ">> \o GoodToken),
     Header(GoodToken)}

\* Request bodies: a JSON object, a truncated one, and no body at all.
BodyJson == [toks |-> <<LBrace, Key("pin"), StrLit(<<"1">>), RBrace>>]
BodyUnparsable == [toks |-> <<LBrace, Key("pin")>>]
BodyMissing == [chars |-> <<>>]
Bodies == {BodyJson, BodyUnparsable, BodyMissing}

\* ------------------------------------------------------------ bookkeeping
NoResp == [status |-> 0, body |-> [none |-> TRUE]]
Json(status, body) == [status |-> status, body |-> body]

NoReq == [path |-> PathHealth, portalId |-> <<>>, header |-> NoHeader, body |-> BodyMissing]
NoPending == [none |-> TRUE]
NotRead == [notread |-> TRUE]
ReadThrew == [threw |-> TRUE]

NoHist == [misses |-> 0, first |-> 0, last |-> 0, puts |-> 0, flags |-> {}]

Did(p, what) == \E i \in 1..Len(trace[p]) : trace[p][i] = what

KVget(store, key) == IF key \in DOMAIN store THEN store[key] ELSE KvNull
KVput(store, key, text) ==
    [k \in DOMAIN store \cup {key} |-> IF k = key THEN text ELSE store[k]]

InSection(q, key) ==
    /\ pc[q] \in {"gapGet", "gapPut"}
    /\ gapKey(req[q].portalId) = key

\* ----------------------------------------------------------------- routes
list(scrapers) == [i \in 1..Len(scrapers) |-> scrapers[i].meta]

RECURSIVE Reverse(_)
Reverse(s) == IF s = <<>> THEN <<>> ELSE Append(Reverse(Tail(s)), Head(s))

HasCategory(m, category) == m.category = category

listByCategory_Reversed(scrapers, category) ==
    Reverse(SelectSeq(list(scrapers), LAMBDA m : HasCategory(m, category)))

listByCategory(scrapers, category) ==
    SelectSeq(list(scrapers), LAMBDA m : HasCategory(m, category))

\* What the route handler of request r does up to its first await: where it
\* suspends (or "done"), the response it has sent, the effects it performed.
HandlerStart(r) ==
    CASE r.path = PathHealth ->
            [pc |-> "done", did |-> <<"handler">>,
             resp |-> Json(200, [status |-> "ok", service |-> "chittyscrape"])]
      [] r.path = PathStatus ->
            [pc |-> "done", did |-> <<"handler">>,
             resp |-> Json(200, [name |-> "ChittyScrape", tier |-> 3])]
      [] r.path = PathCapabilities ->
            [pc |-> "done", did |-> <<"handler", "catalog.list">>,
             resp |-> Json(200, [service |-> "chittyscrape", scrapers |-> list(catalog)])]
      [] r.path = PathGaps ->
            [pc |-> "gapsList", did |-> <<"handler">>, resp |-> NoResp]
      [] r.path = PathScrape ->
            IF ~PORTAL_ID_RE(r.portalId)
            THEN [pc |-> "done", did |-> <<"handler">>,
                  resp |-> Json(400, [success |-> FALSE,
                                      error |-> "Invalid portal ID format"])]
            ELSE IF ~CatalogHas(catalog, r.portalId)
            THEN [pc |-> "gapGet", did |-> <<"handler", "catalog.get">>, resp |-> NoResp]
            ELSE [pc |-> "body", did |-> <<"handler", "catalog.get">>, resp |-> NoResp]
      [] OTHER ->
            [pc |-> "done", did |-> <<>>, resp |-> Json(404, [notFound |-> TRUE])]

\* Request p, carrying r, passes to its route handler, having performed the
\* effects `before` on the way.
Enter(p, r, before) ==
    LET h == HandlerStart(r)
        key == gapKey(r.portalId)
    IN  /\ pc' = [pc EXCEPT ![p] = h.pc]
        /\ resp' = [resp EXCEPT ![p] = h.resp]
        /\ trace' = [trace EXCEPT ![p] = @ \o before \o h.did]
        /\ hist' = IF h.pc = "gapGet" /\ \E q \in Reqs \ {p} : InSection(q, key)
                   THEN [hist EXCEPT ![key].flags = @ \cup {"overlap"}]
                   ELSE hist

Respond(p, status, body) ==
    /\ pc' = [pc EXCEPT ![p] = "done"]
    /\ resp' = [resp EXCEPT ![p] = Json(status, body)]

\* ------------------------------------------------------- admission gate
NeedsAuth_GapsOnly(path) == path = PathGaps

NeedsAuth(path) == path \in ApiPaths /\ path \notin unauthPaths

HasBearer_AnyHeader(header) == header.present

HasBearer(header) == header.present /\ StartsWith(header.value, BearerPrefix)

\* A request arrives and runs up to its first await: the gate's header check
\* and, on a public path, the route handler.
Receive(p, paths, headers, ids, bodies) ==
    /\ pc[p] = "idle"
    /\ \A q \in Reqs : q < p => pc[q] # "idle"
    /\ served < MaxServed
    /\ \E path \in paths, header \in headers :
       \E id \in (IF path = PathScrape THEN ids ELSE {<<>>}),
          body \in (IF path = PathScrape THEN bodies ELSE {BodyMissing}) :
         LET r == [path |-> path, portalId |-> id, header |-> header, body |-> body]
         IN  /\ req' = [req EXCEPT ![p] = r]
             /\ IF ~NeedsAuth(path)
                THEN Enter(p, r, <<>>)
                ELSE IF ~HasBearer(header)
                THEN /\ Respond(p, 401, [error |-> "Auth required"])
                     /\ UNCHANGED <<trace, hist>>
                ELSE /\ pc' = [pc EXCEPT ![p] = "auth"]
                     /\ UNCHANGED <<resp, trace, hist>>
    /\ UNCHANGED <<library, catalog, kv, clock, valid, pending, corrupts, served>>

\* What the gate does once the read of the expected token has completed
\* (ok) or thrown (~ok): the status it answers with, or 0 for next().
GateVerdict_Legacy(ok, token, read) ==
    IF ~ok THEN 500
    ELSE IF ~Truthy(read) \/ token # read.chars THEN 403
    ELSE 0

GateVerdict(ok, token, read) ==
    IF ~ok THEN 503
    ELSE IF ~Truthy(read) THEN 503
    ELSE LET cmp == timingSafeEqual(token, read.chars) IN
         IF cmp = "throw" THEN 500
         ELSE IF cmp = "false" THEN 403
         ELSE 0

GateBody(status) ==
    CASE status = 503 -> [error |-> "Authentication service unavailable"]
      [] status = 403 -> [error |-> "Invalid token"]
      [] OTHER -> [success |-> FALSE, error |-> "Internal error"]

\* The gate's await of SCRAPE_KV.get('scrape:service_token') completes.
AuthRead(p) ==
    /\ pc[p] = "auth"
    /\ \E ok \in BOOLEAN :
         LET token == Slice(req[p].header.value, BearerPrefixLen)
             read == KVget(kv, ServiceTokenKey)
             verdict == GateVerdict(ok, token, read)
         IN  /\ valid' = [valid EXCEPT ![p] = IF ok THEN read ELSE ReadThrew]
             /\ IF verdict = 0
                THEN Enter(p, req[p], <<"kv.get.token">>)
                ELSE /\ Respond(p, verdict, GateBody(verdict))
                     /\ trace' = [trace EXCEPT ![p] = Append(@, "kv.get.token")]
                     /\ UNCHANGED hist
    /\ UNCHANGED <<library, catalog, kv, clock, req, pending, corrupts, served>>

\* ------------------------------------------------- dispatch: the miss path
\* The 404 of a miss.
NoScraperResponse_Key(portalId) ==
    Json(404, [success |-> FALSE,
               error |-> "no_scraper_available",
               recommendation |-> [portalId |-> gapKey(portalId),
                                   action |-> "build_scraper"]])

NoScraperResponse(portalId) ==
    Json(404, [success |-> FALSE,
               error |-> "no_scraper_available",
               recommendation |-> [portalId |-> portalId,
                                   action |-> "build_scraper"]])

\* The response when the gap store throws inside the tracking block: the
\* catch logs, and the handler goes on to its 404.
GapTrackingFailed_Uncaught(portalId) ==
    Json(500, [success |-> FALSE, error |-> "Internal error"])

GapTrackingFailed(portalId) == NoScraperResponse(portalId)

\* The text the put stores: the one built from what this miss read.
Written_Atomic(store, key, held) ==
    JSONstringify(GapData(KVget(store, key), toISOString(held.t)))

Written(store, key, held) == held.data

\* The await of SCRAPE_KV.get(gapKey) completes; the handler takes its
\* timestamp, builds gapData and issues the put.
GapGet(p) ==
    /\ pc[p] = "gapGet"
    /\ LET key == gapKey(req[p].portalId) IN
       \E ok \in BOOLEAN :
         IF ~ok
         THEN /\ pc' = [pc EXCEPT ![p] = "done"]
              /\ resp' = [resp EXCEPT ![p] = GapTrackingFailed(req[p].portalId)]
              /\ trace' = [trace EXCEPT ![p] = Append(@, "kv.get.gap!")]
              /\ hist' = [hist EXCEPT ![key].flags = @ \cup {"fail"},
                                      ![key].misses = @ + 1]
              /\ UNCHANGED <<clock, pending>>
         ELSE \E t \in {clock, clock + 1} \cap (1..MaxClock) :
              LET existing == KVget(kv, key)
                  now == toISOString(t)
              IN  /\ clock' = t
                  /\ pending' = [pending EXCEPT ![p] =
                                    [existing |-> existing,
                                     t |-> t,
                                     data |-> JSONstringify(GapData(existing, now)),
                                     seen |-> hist[key].puts]]
                  /\ pc' = [pc EXCEPT ![p] = "gapPut"]
                  /\ trace' = [trace EXCEPT ![p] = Append(@, "kv.get.gap")]
                  /\ hist' = [hist EXCEPT ![key].first = IF @ = 0 THEN t ELSE @,
                                          ![key].last = t]
                  /\ UNCHANGED resp
    /\ UNCHANGED <<library, catalog, kv, req, valid, corrupts, served>>

\* The await of SCRAPE_KV.put(gapKey, ...) completes and the 404 is sent.
GapPut(p) ==
    /\ pc[p] = "gapPut"
    /\ LET key == gapKey(req[p].portalId) IN
       \E ok \in BOOLEAN :
         IF ok
         THEN /\ kv' = KVput(kv, key, Written(kv, key, pending[p]))
              /\ resp' = [resp EXCEPT ![p] = NoScraperResponse(req[p].portalId)]
              /\ trace' = [trace EXCEPT ![p] = Append(@, "kv.put.gap")]
              /\ hist' = [hist EXCEPT
                    ![key].puts = @ + 1,
                    ![key].misses = @ + 1,
                    ![key].flags = IF pending[p].seen # hist[key].puts
                                   THEN @ \cup {"stale"} ELSE @]
         ELSE /\ kv' = kv
              /\ resp' = [resp EXCEPT ![p] = GapTrackingFailed(req[p].portalId)]
              /\ trace' = [trace EXCEPT ![p] = Append(@, "kv.put.gap!")]
              /\ hist' = [hist EXCEPT ![key].flags = @ \cup {"fail"},
                                      ![key].misses = @ + 1]
    /\ pc' = [pc EXCEPT ![p] = "done"]
    /\ pending' = [pending EXCEPT ![p] = NoPending]
    /\ UNCHANGED <<library, catalog, clock, req, valid, corrupts, served>>

\* -------------------------------------------------- dispatch: the hit path
\* c.req.json(): the parsed body, or JsThrow when the text is not JSON.
reqJson_Lenient(body) ==
    IF JSONparse(body).t = "throw" THEN JsObject(<<>>) ELSE JSONparse(body)

reqJson(body) == JSONparse(body)

\* What a plugin's execute resolves with at time t: the envelopes it builds
\* with wrapResult.
Payload == JsObject([balance |-> JsNumber(100)])
PinRequired == <<"p","i","n"," ","i","s"," ","r","e","q","u","i","r","e","d">>

PluginResults(portalId, t) ==
    {wrapResult(portalId, TRUE, Payload, JsUndefined, t),
     wrapResult(portalId, FALSE, JsUndefined, JsString(PinRequired), t)}

\* What a plugin's execute rejects with.
TargetClosed == <<"T","a","r","g","e","t"," ","c","l","o","s","e","d">>
PluginErrors == {Error(TargetClosed)}

\* The object a client reads from c.json(result): JSON.stringify leaves out
\* the properties whose value is undefined.
EnvelopeJson(result) ==
    LET keys == {"success", "method", "portal", "scrapedAt"}
                  \cup (IF result.data = JsUndefined THEN {} ELSE {"data"})
                  \cup (IF result.error = JsUndefined THEN {} ELSE {"error"})
    IN  [k \in keys |-> result[k]]

\* return c.json(result)
ExecuteReturned_ByFlag(result) ==
    Json(IF result.success THEN 200 ELSE 502, EnvelopeJson(result))

ExecuteReturned(result) == Json(200, EnvelopeJson(result))

ScraperFailedPrefix ==
    <<"S","c","r","a","p","e","r"," ","e","x","e","c","u","t","i","o","n"," ",
      "f","a","i","l","e","d",":"," ">>
InternalErrorPrefix ==
    <<"I","n","t","e","r","n","a","l"," ","e","r","r","o","r",":"," ">>

\* The catch around execute: the 500 envelope built from err.message.
ExecuteThrew_Uncaught(portalId, err, now) ==
    Json(500, [success |-> FALSE,
               error |-> JsString(InternalErrorPrefix \o err.message)])

ExecuteThrew(portalId, err, now) ==
    Json(500, [success |-> FALSE,
               error |-> JsString(ScraperFailedPrefix \o err.message),
               method |-> "scrape",
               portal |-> portalId,
               scrapedAt |-> toISOString(now)])

\* The await of c.req.json() completes; on a parsed body the handler calls
\* scraper.execute and awaits it.
Body(p) ==
    /\ pc[p] = "body"
    /\ LET input == reqJson(req[p].body) IN
       IF input.t # "throw"
       THEN /\ pc' = [pc EXCEPT ![p] = "exec"]
            /\ pending' = [pending EXCEPT ![p] = [input |-> input]]
            /\ trace' = [trace EXCEPT ![p] = @ \o <<"req.json", "execute">>]
            /\ UNCHANGED resp
       ELSE /\ Respond(p, 400, [success |-> FALSE,
                                error |-> "Invalid or missing JSON request body"])
            /\ trace' = [trace EXCEPT ![p] = Append(@, "req.json!")]
            /\ UNCHANGED pending
    /\ UNCHANGED <<library, catalog, kv, clock, req, valid, hist, corrupts, served>>

\* Whether the handler calls execute again after an attempt: the try block
\* returns and the catch block returns, so it never does.
ShouldRetry_Once(attempts, failed) == failed /\ attempts < 2

ShouldRetry(attempts, failed) == FALSE

Calls(p, what) == Cardinality({i \in 1..Len(trace[p]) : trace[p][i] = what})

\* The effects of an attempt that ended with `ended`, and of what follows.
AfterAttempt(p, ended, failed) ==
    IF ShouldRetry(Calls(p, "execute"), failed)
    THEN [pc |-> "exec", did |-> <<ended, "execute">>, again |-> TRUE]
    ELSE [pc |-> "done", did |-> <<ended>>, again |-> FALSE]

\* The await of scraper.execute(...) completes: with the plugin's envelope,
\* or with an exception that the handler's catch turns into its own envelope.
Execute(p) ==
    /\ pc[p] = "exec"
    /\ \E t \in {clock, clock + 1} \cap (1..MaxClock) :
         /\ clock' = t
         /\ \/ \E result \in PluginResults(req[p].portalId, t) :
                  LET next == AfterAttempt(p, "execute.returned", ~result.success) IN
                  /\ pending' = [pending EXCEPT ![p] =
                                    [input |-> @.input, result |-> result]]
                  /\ resp' = IF next.again THEN resp
                             ELSE [resp EXCEPT ![p] = ExecuteReturned(result)]
                  /\ trace' = [trace EXCEPT ![p] = @ \o next.did]
                  /\ pc' = [pc EXCEPT ![p] = next.pc]
            \/ \E err \in PluginErrors :
                  LET next == AfterAttempt(p, "execute.threw", TRUE) IN
                  /\ pending' = [pending EXCEPT ![p] =
                                    [input |-> @.input, err |-> err, t |-> t]]
                  /\ resp' = IF next.again THEN resp
                             ELSE [resp EXCEPT ![p] =
                                      ExecuteThrew(req[p].portalId, err, t)]
                  /\ trace' = [trace EXCEPT ![p] = @ \o next.did]
                  /\ pc' = [pc EXCEPT ![p] = next.pc]
    /\ UNCHANGED <<library, catalog, kv, req, valid, hist, corrupts, served>>

\* ------------------------------------------------------------ GET /gaps
\* KV.list returns key names in byte order.
CharOrder ==
    <<"\n", " ", "-", "/", "0", "1", "2", "3", "4", "5", "6", "7", "8", "9", ":",
      "C", "D", "_", "a", "b", "c", "d", "e", "f", "g", "h", "i", "j", "k", "l", "m",
      "n", "o", "p", "q", "r", "s", "t", "u", "v", "w", "x", "y", "z">>
CharCode(c) == CHOOSE i \in 1..Len(CharOrder) : CharOrder[i] = c

RECURSIVE LexLess(_, _)
LexLess(a, b) ==
    IF b = <<>> THEN FALSE
    ELSE IF a = <<>> THEN TRUE
    ELSE IF Head(a) # Head(b) THEN CharCode(Head(a)) < CharCode(Head(b))
    ELSE LexLess(Tail(a), Tail(b))

RECURSIVE SortKeys(_)
SortKeys(S) ==
    IF S = {} THEN <<>>
    ELSE LET least == CHOOSE k \in S : \A other \in S \ {k} : LexLess(k, other)
         IN  <<least>> \o SortKeys(S \ {least})

KVlist(store, prefix) == SortKeys({k \in DOMAIN store : StartsWith(k, prefix)})

JsTruthy(v) ==
    CASE v.t = "number" -> v.n # 0
      [] v.t = "string" -> v.s # <<>>
      [] v.t = "object" -> TRUE
      [] OTHER -> FALSE

\* Whether the enumerator pushes the parsed record (else it counts it malformed).
GapListed(gap) ==
    /\ gap.t \notin {"throw", "null"}
    /\ Prop(gap, "count").t = "number"
    /\ JsTruthy(Prop(gap, "firstRequested"))
    /\ JsTruthy(Prop(gap, "lastRequested"))

\* { portalId: key.name.replace('gap:', ''), ...gap }
GapEntry(key, gap) ==
    [nm \in {"portalId"} \cup DOMAIN gap.f |->
        IF nm \in DOMAIN gap.f THEN gap.f[nm]
        ELSE JsString(Slice(key, Len(GapPrefix)))]

GapsResponse(gaps, malformedCount) ==
    IF malformedCount > 0
    THEN [gaps |-> gaps, malformedCount |-> malformedCount]
    ELSE [gaps |-> gaps]

\* The await of SCRAPE_KV.list({ prefix: 'gap:' }) completes.
GapsList(p) ==
    /\ pc[p] = "gapsList"
    /\ \E ok \in BOOLEAN :
         LET keys == KVlist(kv, GapPrefix) IN
         IF ~ok
         THEN /\ Respond(p, 500, [success |-> FALSE, error |-> "Internal error"])
              /\ trace' = [trace EXCEPT ![p] = Append(@, "kv.list!")]
              /\ UNCHANGED pending
         ELSE /\ trace' = [trace EXCEPT ![p] = Append(@, "kv.list")]
              /\ IF keys = <<>>
                 THEN /\ Respond(p, 200, GapsResponse(<<>>, 0))
                      /\ UNCHANGED pending
                 ELSE /\ pc' = [pc EXCEPT ![p] = "gapsGet"]
                      /\ pending' = [pending EXCEPT ![p] =
                            [listed |-> keys, keys |-> keys,
                             gaps |-> <<>>, malformedCount |-> 0]]
                      /\ UNCHANGED resp
    /\ UNCHANGED <<library, catalog, kv, clock, req, valid, hist, corrupts, served>>

\* The await of SCRAPE_KV.get(key.name) for the next listed key completes.
GapsGet(p) ==
    /\ pc[p] = "gapsGet"
    /\ \E ok \in BOOLEAN :
         LET key == Head(pending[p].keys)
             raw == KVget(kv, key)
             gap == JSONparse(raw)
             gaps == IF Truthy(raw) /\ GapListed(gap)
                     THEN Append(pending[p].gaps, GapEntry(key, gap))
                     ELSE pending[p].gaps
             malformedCount == IF Truthy(raw) /\ ~GapListed(gap)
                               THEN pending[p].malformedCount + 1
                               ELSE pending[p].malformedCount
             rest == Tail(pending[p].keys)
         IN  IF ~ok
             THEN /\ Respond(p, 500, [success |-> FALSE, error |-> "Internal error"])
                  /\ trace' = [trace EXCEPT ![p] = Append(@, "kv.get.gap!")]
                  /\ pending' = [pending EXCEPT ![p] = NoPending]
             ELSE /\ trace' = [trace EXCEPT ![p] = Append(@, "kv.get.gap")]
                  /\ IF rest = <<>>
                     THEN /\ Respond(p, 200, GapsResponse(gaps, malformedCount))
                          /\ pending' = [pending EXCEPT ![p] =
                                [listed |-> pending[p].listed, keys |-> rest,
                                 gaps |-> gaps, malformedCount |-> malformedCount]]
                     ELSE /\ pending' = [pending EXCEPT ![p] =
                                [listed |-> pending[p].listed, keys |-> rest,
                                 gaps |-> gaps, malformedCount |-> malformedCount]]
                          /\ UNCHANGED <<pc, resp>>
    /\ UNCHANGED <<library, catalog, kv, clock, req, valid, hist, corrupts, served>>

\* ------------------------------------------------------------ environment
IsoA == toISOString(1)

\* Texts a writer other than this service can leave under a gap key.
CorruptTexts ==
    {[chars |-> <<>>],
     [chars |-> <<"?">>],
     [toks |-> <<NullLit>>],
     [toks |-> <<NumLit(5)>>],
     [toks |-> <<LBrace, RBrace>>],
     [toks |-> <<LBrace, Key("count"), StrLit(<<"5">>),
                 Key("firstRequested"), StrLit(IsoA),
                 Key("lastRequested"), StrLit(IsoA), RBrace>>],
     [toks |-> <<LBrace, Key("count"), NumLit(5),
                 Key("firstRequested"), NumLit(7),
                 Key("lastRequested"), StrLit(IsoA), RBrace>>],
     [toks |-> <<LBrace, Key("count"), NumLit(5),
                 Key("firstRequested"), StrLit(<<>>),
                 Key("lastRequested"), StrLit(IsoA), RBrace>>],
     [toks |-> <<LBrace, Key("count"), NumLit(5),
                 Key("firstRequested"), StrLit(IsoA),
                 Key("lastRequested"), StrLit(IsoA),
                 Key("portalId"), StrLit(<<"z">>), RBrace>>]}

\* A writer other than this service overwrites a gap key.
Corrupt(keys) ==
    /\ corrupts < MaxCorrupt
    /\ \E key \in keys, text \in CorruptTexts :
         /\ kv' = KVput(kv, key, text)
         /\ hist' = [hist EXCEPT ![key].flags = @ \cup {"corrupt"},
                                 ![key].puts = @ + 1]
    /\ corrupts' = corrupts + 1
    /\ UNCHANGED <<library, catalog, clock, req, pc, resp, valid, pending, trace, served>>

\* The operator sets, clears or rotates the service token.
SetToken(texts) ==
    /\ \E text \in texts :
         /\ text # KVget(kv, ServiceTokenKey)
         /\ kv' = IF text = KvNull
                  THEN [k \in DOMAIN kv \ {ServiceTokenKey} |-> kv[k]]
                  ELSE KVput(kv, ServiceTokenKey, text)
    /\ UNCHANGED <<library, catalog, clock, req, pc, resp, valid, pending, trace, hist, corrupts, served>>

\* The client's connection is done with; the slot takes the next request.
Retire(p) ==
    /\ pc[p] = "done"
    /\ pc' = [pc EXCEPT ![p] = "idle"]
    /\ resp' = [resp EXCEPT ![p] = NoResp]
    /\ valid' = [valid EXCEPT ![p] = NotRead]
    /\ trace' = [trace EXCEPT ![p] = <<>>]
    /\ pending' = [pending EXCEPT ![p] = NoPending]
    /\ req' = [req EXCEPT ![p] = NoReq]
    /\ served' = served + 1
    /\ UNCHANGED <<library, catalog, kv, clock, hist, corrupts>>

\* --------------------------------------------------------- specifications
NoCall == [none |-> TRUE]

InitRequests(store) ==
    /\ kv = store
    /\ clock = 1
    /\ req = [p \in Reqs |-> NoReq]
    /\ pc = [p \in Reqs |-> "idle"]
    /\ resp = [p \in Reqs |-> NoResp]
    /\ valid = [p \in Reqs |-> NotRead]
    /\ pending = [p \in Reqs |-> NoPending]
    /\ trace = [p \in Reqs |-> <<>>]
    /\ hist = [key \in GapKeys |-> NoHist]
    /\ corrupts = 0
    /\ served = 0
    /\ wrapped = NoCall
    /\ lookup = NoCall
    /\ run = NoCall

InitWith(store) ==
    /\ catalog = BuiltCatalog
    /\ regLog = Registrations
    /\ InitRequests(store)

TokenStore(text) == KVput(<<>>, ServiceTokenKey, text)

\* Dispatch: requests to POST /api/scrape/:portalId, with and without the
\* service token, over every kind of portal id, and between them requests to
\* GET /api/v1/capabilities.
DispatchIds == {IdX, Id64, Id65, Id100, IdUpper, IdSlash, IdCourtDocket}
DispatchPaths == {PathScrape, PathCapabilities}
DispatchKeys == {gapKey(IdX)}
DispatchHeaders == {Bearer(GoodToken), NoHeader}

Init == InitWith(TokenStore([chars |-> GoodToken]))

Next ==
    \/ Receive(1, DispatchPaths, DispatchHeaders, DispatchIds, Bodies)
    \/ \E p \in Reqs : AuthRead(p)
    \/ \E p \in Reqs : GapGet(p)
    \/ \E p \in Reqs : GapPut(p)
    \/ \E p \in Reqs : Body(p)
    \/ \E p \in Reqs : Execute(p)
    \/ \E p \in Reqs : Retire(p)
    \/ Corrupt(DispatchKeys)

Spec == Init /\ [][Next]_vars

\* The gap tracker under concurrency: admitted misses on one unregistered id.
NextGap ==
    \/ \E p \in Reqs : Receive(p, {PathScrape}, {Bearer(GoodToken)}, {IdX}, {BodyJson})
    \/ \E p \in Reqs : AuthRead(p)
    \/ \E p \in Reqs : GapGet(p)
    \/ \E p \in Reqs : GapPut(p)

SpecGap == Init /\ [][NextGap]_vars

\* The admission gate: one request at a time over every path, header and
\* presented token, against every state of the stored service token.
GatePaths == {PathHealth, PathStatus, PathCapabilities, PathGaps, PathScrape,
              PathStatusSlash}
GateHeaders == BadSchemeHeaders \cup {Bearer(t) : t \in Tokens}
GateTokenTexts == {KvNull} \cup {[chars |-> t] : t \in Tokens}
GateIds == {IdX, IdCourtDocket}

GateGapStores ==
    {<<>>, KVput(<<>>, gapKey(IdX), JSONstringify(FreshGap(toISOString(1))))}

InitGate ==
    \E text \in GateTokenTexts, gaps \in GateGapStores :
        InitWith(IF text = KvNull THEN gaps ELSE KVput(gaps, ServiceTokenKey, text))

NextGate ==
    \/ Receive(1, GatePaths, GateHeaders, GateIds, {BodyJson})
    \/ \E p \in Reqs : AuthRead(p)
    \/ \E p \in Reqs : GapGet(p)
    \/ \E p \in Reqs : GapPut(p)
    \/ \E p \in Reqs : Body(p)
    \/ \E p \in Reqs : Execute(p)
    \/ \E p \in Reqs : GapsList(p)
    \/ \E p \in Reqs : GapsGet(p)
    \/ SetToken(GateTokenTexts)

SpecGate == InitGate /\ [][NextGate]_vars

\* The gap tracker and its enumerator: misses on two unregistered ids and
\* requests to GET /api/v1/gaps, one after the other, with writes to the gap
\* keys by other writers in between.
GapsPaths == {PathScrape, PathGaps}
GapsIds == {IdX, Id64}

NextGaps ==
    \/ Receive(1, GapsPaths, {Bearer(GoodToken)}, GapsIds, {BodyJson})
    \/ \E p \in Reqs : AuthRead(p)
    \/ \E p \in Reqs : GapGet(p)
    \/ \E p \in Reqs : GapPut(p)
    \/ \E p \in Reqs : GapsList(p)
    \/ \E p \in Reqs : GapsGet(p)
    \/ \E p \in Reqs : Retire(p)
    \/ Corrupt({gapKey(id) : id \in GapsIds})

SpecGaps == Init /\ [][NextGaps]_vars

\* The catalog on its own: register calls on a fresh ScraperCatalog.
IdA == <<"a">>
IdB == <<"b">>
CatalogIds == {IdA, IdB, IdX}
CatalogCategories == {"utility", "court", "tax"}

Register(ids, categories) ==
    /\ Len(regLog) < MaxRegs
    /\ \E id \in ids, category \in categories :
         LET scraper == Scraper(id, category) IN
         /\ catalog' = register(catalog, scraper)
         /\ regLog' = Append(regLog, scraper)
    /\ UNCHANGED <<kv, clock, req, pc, resp, valid, pending, trace, hist, corrupts,
                   served, wrapped, lookup, run>>

InitCatalog ==
    /\ catalog = <<>>
    /\ regLog = <<>>
    /\ InitRequests(<<>>)

NextCatalog == Register(CatalogIds, CatalogCategories)

SpecCatalog == InitCatalog /\ [][NextCatalog]_vars

\* wrapResult on its own: calls over every combination of its arguments.
TestPortal == <<"t","e","s","t","-","p","o","r","t","a","l">>
WrapPortals == {TestPortal, IdComed, IdCookCountyTax}
WrapData == {JsUndefined, JsNull, Payload}
WrapErrors == {JsUndefined, JsString(<<"x">>), JsString(<<>>)}

WrapResult ==
    /\ \E portal \in WrapPortals, success \in BOOLEAN,
          data \in WrapData, error \in WrapErrors,
          t \in {clock, clock + 1} \cap (1..MaxClock) :
         /\ clock' = t
         /\ wrapped' = [portal |-> portal, success |-> success, data |-> data,
                        error |-> error, t |-> t,
                        result |-> wrapResult(portal, success, data, error, t)]
    /\ UNCHANGED <<catalog, kv, req, pc, resp, valid, pending, trace, hist, corrupts,
                   served, regLog, lookup, run>>

NextWrap == WrapResult

SpecWrap == InitWith(<<>>) /\ [][NextWrap]_vars

\* resolveSelector on its own: one call over every page, a page being what
\* page.$ does with each candidate.
Outcomes == {"element", "null", "syntax", "closed"}
Selector(i) == <<"#", DigitOf(i)>>

InvalidSelector ==
    <<"i","s"," ","n","o","t"," ","a"," ","v","a","l","i","d"," ",
      "s","e","l","e","c","t","o","r">>

\* page.$(selector) rejects.
Rejected(outcome) == outcome \in {"syntax", "closed"}
Thrown(outcome) ==
    IF outcome = "syntax" THEN Error(InvalidSelector) ELSE Error(TargetClosed)

\* catch { }: the rejections the loop swallows.
Swallowed_None(outcome) == FALSE

Swallowed(outcome) == Rejected(outcome)

Running == [kind |-> "running"]
Returned(value) == [kind |-> "return", value |-> value]
Threw(err) == [kind |-> "throw", err |-> err]

\* The loop from candidate i on, up to its next await (or the return null
\* after the loop).
NextCandidate(call, i) ==
    IF i > Len(call.selectors)
    THEN [call EXCEPT !.out = Returned(JsNull)]
    ELSE [call EXCEPT !.i = i, !.tried = Append(@, call.selectors[i])]

\* resolveSelector(page, selectors) is called.
ResolveSelector ==
    /\ lookup = NoCall
    /\ \E n \in 0..MaxCandidates :
       \E page \in [1..n -> Outcomes] :
         lookup' = NextCandidate([selectors |-> [i \in 1..n |-> Selector(i)],
                                  page |-> page,
                                  i |-> 0,
                                  tried |-> <<>>,
                                  out |-> Running], 1)
    /\ UNCHANGED <<catalog, kv, clock, req, pc, resp, valid, pending, trace, hist,
                   corrupts, served, regLog, wrapped, run>>

\* The await of page.$(selector) completes.
PageQuery ==
    /\ lookup # NoCall
    /\ lookup.out = Running
    /\ LET outcome == lookup.page[lookup.i]
           selector == lookup.selectors[lookup.i]
       IN  lookup' =
             IF outcome = "element"
             THEN [lookup EXCEPT !.out = Returned(JsString(selector))]
             ELSE IF Rejected(outcome) /\ ~Swallowed(outcome)
             THEN [lookup EXCEPT !.out = Threw(Thrown(outcome))]
             ELSE NextCandidate(lookup, lookup.i + 1)
    /\ UNCHANGED <<catalog, kv, clock, req, pc, resp, valid, pending, trace, hist,
                   corrupts, served, regLog, wrapped, run>>

NextSelector ==
    \/ ResolveSelector
    \/ PageQuery

SpecSelector == InitWith(<<>>) /\ [][NextSelector]_vars

\* A plugin execution on its own: the try / catch / finally around the
\* browser session in peoples-gas, comed and mr-cooper.  A stage is the
\* awaits between two early returns; it goes on ("ok"), returns a failed
\* envelope ("return") or throws ("throw").
Plugins == {IdPeoplesGas, IdComed, IdMrCooper}

Stages(plugin) ==
    <<[name |-> "goto", outcomes |-> {"ok", "throw"}],
      [name |-> "username", outcomes |-> {"ok", "return", "throw"}],
      [name |-> "password", outcomes |-> {"ok", "return", "throw"}],
      [name |-> "submit", outcomes |-> {"ok", "return", "throw"}],
      [name |-> "waitForNavigation",
       outcomes |-> IF plugin = IdPeoplesGas THEN {"ok", "return"} ELSE {"ok"}],
      [name |-> "loginCheck", outcomes |-> {"ok", "return", "throw"}],
      [name |-> "extract", outcomes |-> {"ok", "return", "throw"}]>>

\* The finally block is entered with the completion `exit` pending.
Finally(r, exit) ==
    [r EXCEPT !.exit = exit,
              !.pc = IF r.page THEN "pageClose"
                     ELSE IF r.browserInstance THEN "browserClose"
                     ELSE "exited"]

\* Where the finally block goes after `await page.close().catch(...)`.
AfterPageClose_Uncaught(r, rejected) ==
    IF rejected \/ ~r.browserInstance THEN "exited" ELSE "browserClose"

AfterPageClose(r, rejected) == IF r.browserInstance THEN "browserClose" ELSE "exited"

Exit(success, at, how) == [success |-> success, at |-> at, how |-> how]

\* execute is called; the await of puppeteer.launch(browser) completes.
Launch ==
    /\ run = NoCall
    /\ \E plugin \in Plugins, ok \in BOOLEAN :
         LET r == [plugin |-> plugin, pc |-> "newPage", k |-> 0,
                   browserInstance |-> ok, page |-> FALSE,
                   exit |-> Exit(TRUE, "", "none"), calls |-> <<>>]
         IN  run' = IF ok THEN r ELSE Finally(r, Exit(FALSE, "launch", "throw"))
    /\ UNCHANGED <<catalog, kv, clock, req, pc, resp, valid, pending, trace, hist,
                   corrupts, served, regLog, wrapped, lookup>>

\* The await of browserInstance.newPage() completes.
NewPage ==
    /\ run # NoCall
    /\ run.pc = "newPage"
    /\ \E ok \in BOOLEAN :
         run' = IF ok THEN [run EXCEPT !.page = TRUE, !.pc = "stage", !.k = 1]
                ELSE Finally(run, Exit(FALSE, "newPage", "throw"))
    /\ UNCHANGED <<catalog, kv, clock, req, pc, resp, valid, pending, trace, hist,
                   corrupts, served, regLog, wrapped, lookup>>

\* The awaits of one stage complete.
Stage ==
    /\ run # NoCall
    /\ run.pc = "stage"
    /\ LET stages == Stages(run.plugin)
           stage == stages[run.k]
       IN  \E outcome \in stage.outcomes :
             run' = IF outcome # "ok"
                    THEN Finally(run, Exit(FALSE, stage.name, outcome))
                    ELSE IF run.k = Len(stages)
                    THEN Finally(run, Exit(TRUE, stage.name, "return"))
                    ELSE [run EXCEPT !.k = @ + 1]
    /\ UNCHANGED <<catalog, kv, clock, req, pc, resp, valid, pending, trace, hist,
                   corrupts, served, regLog, wrapped, lookup>>

\* finally: the await of page.close().catch(...) completes.
PageClose ==
    /\ run # NoCall
    /\ run.pc = "pageClose"
    /\ \E rejected \in BOOLEAN :
         run' = [run EXCEPT !.calls = Append(@, "page.close"),
                            !.pc = AfterPageClose(run, rejected)]
    /\ UNCHANGED <<catalog, kv, clock, req, pc, resp, valid, pending, trace, hist,
                   corrupts, served, regLog, wrapped, lookup>>

\* finally: the await of browserInstance.close().catch(...) completes, and
\* execute completes with the pending envelope.
BrowserClose ==
    /\ run # NoCall
    /\ run.pc = "browserClose"
    /\ \E rejected \in BOOLEAN :
         run' = [run EXCEPT !.calls = Append(@, IF rejected THEN "browser.close!"
                                                ELSE "browser.close"),
                            !.pc = "exited"]
    /\ UNCHANGED <<catalog, kv, clock, req, pc, resp, valid, pending, trace, hist,
                   corrupts, served, regLog, wrapped, lookup>>

NextPlugin ==
    \/ Launch
    \/ NewPage
    \/ Stage
    \/ PageClose
    \/ BrowserClose

SpecPlugin == InitWith(<<>>) /\ [][NextPlugin]_vars

\* ----------------------------------------------------------------- claims
Admitted(p) == Did(p, "handler")
Dispatched(p) == req[p].path = PathScrape /\ Admitted(p)
Protected(path) == path \notin {PathHealth, PathStatus, PathCapabilities}
Received(p) == pc[p] # "idle"

WellFormedId(id) ==
    /\ Len(id) >= 1
    /\ Len(id) <= 64
    /\ \A i \in 1..Len(id) : id[i] \in LowerChars \cup DigitChars \cup {"-"}

Registered(id) == \E i \in 1..Len(catalog) : catalog[i].meta.id = id

TouchedRegistryOrGaps(p) ==
    \E i \in 1..Len(trace[p]) :
        trace[p][i] \in {"catalog.get", "kv.get.gap", "kv.get.gap!",
                         "kv.put.gap", "kv.put.gap!"}

Expected404(id) ==
    [status |-> 404,
     body |-> [success |-> FALSE,
               error |-> "no_scraper_available",
               recommendation |-> [portalId |-> id, action |-> "build_scraper"]]]

\* C1: a dispatched portal id that is not 1..64 characters of [a-z0-9-] is
\* answered 400 without a registry lookup or any read or write of a gap key;
\* a well-formed id (court-docket) is never answered with the format error.
C1_InvalidIdRejected ==
    \A p \in Reqs :
        Dispatched(p) =>
            IF WellFormedId(req[p].portalId)
            THEN /\ ~(resp[p].status = 400 /\ resp[p].body.error = "Invalid portal ID format")
                 /\ Did(p, "catalog.get")
            ELSE /\ pc[p] = "done"
                 /\ resp[p].status = 400
                 /\ ~TouchedRegistryOrGaps(p)

C1_Witness ==
    \E p \in Reqs :
        /\ Dispatched(p)
        /\ req[p].portalId = Id100
        /\ resp[p].status = 400
        /\ \E key \in DOMAIN kv : StartsWith(key, GapPrefix)

\* C2: an admitted dispatch of a well-formed, unregistered portal id is
\* answered, whatever its body, 404 with success=false,
\* error='no_scraper_available' and recommendation.portalId = the id.
C2_MissAnswered404 ==
    \A p \in Reqs :
        (Dispatched(p) /\ WellFormedId(req[p].portalId) /\ ~Registered(req[p].portalId)) =>
            /\ resp[p] \in {NoResp, Expected404(req[p].portalId)}
            /\ pc[p] = "done" => resp[p] = Expected404(req[p].portalId)
            /\ ~Did(p, "req.json")

C2_Witness ==
    \E p \in Reqs :
        /\ Dispatched(p)
        /\ req[p].portalId = Id64
        /\ req[p].body = BodyUnparsable
        /\ resp[p] = Expected404(Id64)

\* C3: on a miss, when the read or the write of the gap store throws, the
\* caller still gets the 404 with the recommendation, unchanged.
C3_GapFailureNonFatal ==
    \A p \in Reqs :
        (Did(p, "kv.get.gap!") \/ Did(p, "kv.put.gap!")) =>
            /\ pc[p] = "done"
            /\ resp[p] = Expected404(req[p].portalId)

C3_Witness ==
    \E p \in Reqs :
        /\ Did(p, "kv.put.gap!")
        /\ resp[p] = Expected404(IdX)
        /\ gapKey(IdX) \notin DOMAIN kv

\* C4: the route handler of a protected path runs only for a request whose
\* Authorization header is 'Bearer <token>' with <token> equal to the
\* non-empty expected token its own gate read from the store.
C4_NeverFailsOpen ==
    \A p \in Reqs :
        (Received(p) /\ Protected(req[p].path) /\ Admitted(p)) =>
            /\ req[p].header.present
            /\ StartsWith(req[p].header.value, BearerPrefix)
            /\ "chars" \in DOMAIN valid[p]
            /\ valid[p].chars # <<>>
            /\ Slice(req[p].header.value, 7) = valid[p].chars

C4_Witness ==
    \E p \in Reqs :
        /\ req[p].path = PathGaps
        /\ Admitted(p)
        /\ valid[p] = [chars |-> <<"e'", "a">>]
        /\ pc[p] = "done"

\* C5: a request to a protected endpoint without an Authorization header, or
\* with one that does not start with 'Bearer ', is answered 401 in every
\* state of the token store, which is not even read.
C5_NoBearerIs401 ==
    \A p \in Reqs :
        (/\ Received(p)
         /\ req[p].path \in {PathGaps, PathScrape}
         /\ ~(req[p].header.present /\ StartsWith(req[p].header.value, BearerPrefix))) =>
            /\ pc[p] = "done"
            /\ resp[p] = [status |-> 401, body |-> [error |-> "Auth required"]]
            /\ valid[p] = NotRead
            /\ trace[p] = <<>>

C5_Witness ==
    \E p \in Reqs :
        /\ req[p].path = PathScrape
        /\ req[p].header = Header(<<"b","e","a","r","e","r"," ">> \o GoodToken)
        /\ resp[p].status = 401
        /\ KVget(kv, ServiceTokenKey) = [chars |-> GoodToken]

\* C6 (as claimed): with the expected token present, a presented bearer token
\* that differs from it is answered 403.
C6_MismatchIs403 ==
    \A p \in Reqs :
        (/\ pc[p] = "done"
         /\ req[p].path \in {PathGaps, PathScrape}
         /\ req[p].header.present
         /\ StartsWith(req[p].header.value, BearerPrefix)
         /\ "chars" \in DOMAIN valid[p]
         /\ valid[p].chars # <<>>
         /\ Slice(req[p].header.value, 7) # valid[p].chars) =>
            resp[p].status = 403

\* C7: for a request with a Bearer token to a protected endpoint, a thrown or
\* empty-handed read of the expected token is answered 503 and the handler
\* does not run; 403 is answered only after an expected token was read that
\* differs from the presented one.
C7_DegradedIs503 ==
    \A p \in Reqs :
        (/\ pc[p] = "done"
         /\ req[p].path \in {PathGaps, PathScrape}
         /\ req[p].header.present
         /\ StartsWith(req[p].header.value, BearerPrefix)) =>
            /\ valid[p] \in {ReadThrew, KvNull, [chars |-> <<>>]} =>
                  /\ resp[p].status = 503
                  /\ ~Admitted(p)
            /\ resp[p].status = 403 =>
                  /\ "chars" \in DOMAIN valid[p]
                  /\ valid[p].chars # <<>>
                  /\ valid[p].chars # Slice(req[p].header.value, 7)

C7_Witness ==
    \E p \in Reqs :
        /\ req[p].header = Bearer(GoodToken)
        /\ valid[p] = ReadThrew
        /\ resp[p].status = 503
        /\ KVget(kv, ServiceTokenKey) = [chars |-> GoodToken]

Quiet(key) == \A q \in Reqs : ~InSection(q, key)

StoredCount(key) == Prop(JSONparse(KVget(kv, key)), "count").n

\* C8: N misses on one unregistered id, none overlapping another, on a store
\* that never throws and that nobody else writes, starting from no record,
\* leave { count: N, firstRequested: time of the first miss, lastRequested:
\* time of the N-th miss }.
C8_SequentialMissesCount ==
    \A key \in GapKeys :
        (hist[key].flags = {} /\ Quiet(key) /\ hist[key].misses >= 1) =>
            KVget(kv, key) =
                [toks |-> <<LBrace,
                            Key("count"), NumLit(hist[key].misses),
                            Key("firstRequested"), StrLit(toISOString(hist[key].first)),
                            Key("lastRequested"), StrLit(toISOString(hist[key].last)),
                            RBrace>>]

C8_Witness ==
    /\ hist[gapKey(IdX)].flags = {}
    /\ Quiet(gapKey(IdX))
    /\ hist[gapKey(IdX)].misses = 3
    /\ hist[gapKey(IdX)].first = 1
    /\ hist[gapKey(IdX)].last = 3
    /\ StoredCount(gapKey(IdX)) = 3

\* What the claim calls a malformed persisted record: unparsable, or with a
\* non-numeric count, or with a non-string firstRequested.
Malformed(text) ==
    /\ text # KvNull
    /\ LET v == JSONparse(text) IN
          \/ v.t # "object"
          \/ Prop(v, "count").t # "number"
          \/ Prop(v, "firstRequested").t # "string"

Reading(p) == pc[p] = "gapPut"

\* C9 (as claimed): a miss that read a malformed record writes the fresh
\* record { count: 1, firstRequested: now, lastRequested: now }.
C9_MalformedReset ==
    \A p \in Reqs :
        (Reading(p) /\ Malformed(pending[p].existing)) =>
            pending[p].data =
                [toks |-> <<LBrace,
                            Key("count"), NumLit(1),
                            Key("firstRequested"), StrLit(toISOString(pending[p].t)),
                            Key("lastRequested"), StrLit(toISOString(pending[p].t)),
                            RBrace>>]

\* C9 (amended): a miss that read an unparsable record, or one that parses to
\* something other than an object, writes the fresh record; one that read an
\* object repairs it field by field: count is 1 for a non-numeric count and
\* the old count + 1 otherwise, firstRequested is now for a non-string
\* firstRequested and the old one otherwise, lastRequested is now.
C9_MalformedRepaired ==
    \A p \in Reqs :
        (Reading(p) /\ Malformed(pending[p].existing)) =>
            LET old == JSONparse(pending[p].existing)
                new == JSONparse(pending[p].data)
                now == JsString(toISOString(pending[p].t))
            IN  /\ new.t = "object"
                /\ DOMAIN new.f = {"count", "firstRequested", "lastRequested"}
                /\ new.f["lastRequested"] = now
                /\ new.f["count"] =
                      IF Prop(old, "count").t = "number"
                      THEN JsNumber(Prop(old, "count").n + 1)
                      ELSE JsNumber(1)
                /\ new.f["firstRequested"] =
                      IF Prop(old, "firstRequested").t = "string"
                      THEN Prop(old, "firstRequested")
                      ELSE now

C9_Witness ==
    \E p \in Reqs :
        /\ Reading(p)
        /\ Malformed(pending[p].existing)
        /\ Prop(JSONparse(pending[p].existing), "count").t = "string"
        /\ pending[p].t = 2
        /\ Prop(JSONparse(pending[p].data), "count") = JsNumber(1)
        /\ Prop(JSONparse(pending[p].data), "firstRequested") = JsString(toISOString(1))

\* C10: the read-increment-write of a miss is not atomic.  With every read
\* and write succeeding, the stored count never exceeds the number of misses
\* answered, and it falls short of it exactly when some miss has put its
\* record over one it had not read: an update is lost.
C10_LostUpdate ==
    \A key \in GapKeys :
        (hist[key].flags \cap {"fail", "corrupt"} = {} /\ hist[key].misses >= 1) =>
            /\ StoredCount(key) <= hist[key].misses
            /\ StoredCount(key) < hist[key].misses <=> "stale" \in hist[key].flags

C10_Witness ==
    /\ hist[gapKey(IdX)].flags = {"overlap", "stale"}
    /\ hist[gapKey(IdX)].misses = 2
    /\ \A p \in Reqs : Received(p) /\ req[p].portalId = IdX => Did(p, "kv.put.gap")
    /\ StoredCount(gapKey(IdX)) = 1


Hit(p) == Dispatched(p) /\ WellFormedId(req[p].portalId) /\ Registered(req[p].portalId)
Parsable(body) == JSONparse(body).t # "throw"

EndsWith(s, suffix) ==
    /\ Len(s) >= Len(suffix)
    /\ SubSeq(s, Len(s) - Len(suffix) + 1, Len(s)) = suffix

Contains(s, sub) ==
    \E i \in 1..(Len(s) - Len(sub) + 1) : SubSeq(s, i, i + Len(sub) - 1) = sub

\* C11: on a hit with a parsable JSON body, when the plugin's execute returns
\* an envelope the response is 200 and its body is that envelope, field for
\* field (a field the envelope leaves undefined is absent), whether success
\* is true or false; a hit with a parsable body is answered in no other way
\* than through execute.
C11_EnvelopeVerbatim ==
    \A p \in Reqs :
        /\ (Hit(p) /\ Parsable(req[p].body) /\ pc[p] = "done")
              => (Did(p, "execute.returned") \/ Did(p, "execute.threw"))
        /\ (Hit(p) /\ Did(p, "execute.returned")) =>
              LET result == pending[p].result
                  body == resp[p].body
              IN  /\ pc[p] = "done"
                  /\ resp[p].status = 200
                  /\ DOMAIN body \subseteq DOMAIN result
                  /\ {"success", "method", "portal", "scrapedAt"} \subseteq DOMAIN body
                  /\ body.success = result.success
                  /\ body.method = result.method
                  /\ body.portal = result.portal
                  /\ body.scrapedAt = result.scrapedAt
                  /\ ("data" \in DOMAIN body) <=> (result.data # JsUndefined)
                  /\ ("data" \in DOMAIN body) => body.data = result.data
                  /\ ("error" \in DOMAIN body) <=> (result.error # JsUndefined)
                  /\ ("error" \in DOMAIN body) => body.error = result.error

C11_Witness ==
    \E p \in Reqs :
        /\ Hit(p)
        /\ Did(p, "execute.returned")
        /\ ~pending[p].result.success
        /\ resp[p].status = 200
        /\ resp[p].body.error = JsString(PinRequired)

\* C12: on a hit, when the plugin's execute throws, the response is 500 with
\* exactly success=false, an error ending in the exception's message,
\* method 'scrape', the requested portal id and the timestamp taken in the
\* catch; the body holds no stack field and no stack text.
C12_ThrowIs500 ==
    \A p \in Reqs :
        (Hit(p) /\ Did(p, "execute.threw")) =>
            LET err == pending[p].err
                body == resp[p].body
            IN  /\ pc[p] = "done"
                /\ resp[p].status = 500
                /\ DOMAIN body = {"success", "error", "method", "portal", "scrapedAt"}
                /\ body.success = FALSE
                /\ body.error.t = "string"
                /\ EndsWith(body.error.s, err.message)
                /\ ~Contains(body.error.s, err.stack)
                /\ body.method = "scrape"
                /\ body.portal = req[p].portalId
                /\ body.scrapedAt = toISOString(pending[p].t)

C12_Witness ==
    \E p \in Reqs :
        /\ Hit(p)
        /\ Did(p, "execute.threw")
        /\ pending[p].err.message = TargetClosed
        /\ resp[p].status = 500
        /\ resp[p].body.portal = IdCourtDocket

\* C13: on a hit whose body is not JSON (truncated, or missing), execute is
\* never invoked and the response, once sent, is 400.
C13_UnparsableIs400 ==
    \A p \in Reqs :
        (Hit(p) /\ ~Parsable(req[p].body)) =>
            /\ ~Did(p, "execute")
            /\ pc[p] \in {"body", "done"}
            /\ pc[p] = "done" =>
                  /\ resp[p].status = 400
                  /\ resp[p].body = [success |-> FALSE,
                                     error |-> "Invalid or missing JSON request body"]

C13_Witness ==
    \E p \in Reqs :
        /\ Hit(p)
        /\ req[p].body = BodyUnparsable
        /\ pc[p] = "done"
        /\ resp[p].status = 400
        /\ Did(p, "req.json!")


\* The calls of the log that registered `id`, and the ids ever registered.
RegsOf(id) == {i \in 1..Len(regLog) : regLog[i].meta.id = id}
FirstReg(id) == CHOOSE i \in RegsOf(id) : \A j \in RegsOf(id) : i <= j
LastReg(id) == CHOOSE i \in RegsOf(id) : \A j \in RegsOf(id) : j <= i
NeverRegistered == <<"n","o","p","e">>

\* C14: after any sequence of register calls, get(id) of a registered id is
\* the scraper of the last call that registered it, the id appears exactly
\* once in list(), and list() is ordered by first registration; get(id) of
\* an id never registered is undefined and list() has no entry for it.
C14_RegistryReflectsLog ==
    /\ \A id \in CatalogIds \cup {NeverRegistered} :
          LET places == {k \in 1..Len(list(catalog)) : list(catalog)[k].id = id} IN
          IF RegsOf(id) = {}
          THEN get(catalog, id) = JsUndefined /\ places = {}
          ELSE /\ get(catalog, id) = regLog[LastReg(id)]
               /\ Cardinality(places) = 1
    /\ \A j, k \in 1..Len(list(catalog)) :
          j < k => FirstReg(list(catalog)[j].id) < FirstReg(list(catalog)[k].id)

C14_Witness ==
    /\ regLog = <<Scraper(IdB, "utility"), Scraper(IdA, "utility"), Scraper(IdB, "court")>>
    /\ get(catalog, IdB) = Scraper(IdB, "court")
    /\ list(catalog) = <<Scraper(IdB, "court").meta, Scraper(IdA, "utility").meta>>
    /\ get(catalog, IdX) = JsUndefined

\* C15: a register call under an id that is already registered leaves the
\* length of list() unchanged, puts the new scraper's metadata at the place
\* the id had, leaves every other entry as it was, and makes get(id) the
\* new scraper.
C15_OverwriteInPlace ==
    [][(regLog' # regLog /\ RegsOf(regLog'[Len(regLog')].meta.id) # {}) =>
          LET new == regLog'[Len(regLog')]
              before == list(catalog)
              after == list(catalog')
          IN  /\ Len(after) = Len(before)
              /\ \A k \in 1..Len(before) :
                    IF before[k].id = new.meta.id
                    THEN after[k] = new.meta
                    ELSE after[k] = before[k]
              /\ get(catalog', new.meta.id) = new
              /\ \A id \in CatalogIds \ {new.meta.id} :
                    get(catalog', id) = get(catalog, id)]_vars

C15_Witness ==
    /\ regLog = <<Scraper(IdA, "utility"), Scraper(IdB, "court"), Scraper(IdA, "tax")>>
    /\ Len(list(catalog)) = 2
    /\ list(catalog)[1] = Scraper(IdA, "tax").meta
    /\ list(catalog)[2] = Scraper(IdB, "court").meta

\* The k-th smallest member of a set of indexes.
RECURSIVE Nth(_, _)
Nth(S, k) ==
    LET least == CHOOSE i \in S : \A j \in S : i <= j IN
    IF k = 1 THEN least ELSE Nth(S \ {least}, k - 1)

\* C16: listByCategory(category) holds exactly the entries of list() of that
\* category, each once and in list() order; it is empty when no registered
\* scraper has the category.
C16_ListByCategoryFilters ==
    \A category \in CatalogCategories \cup {"mortgage"} :
        LET all == list(catalog)
            mine == {k \in 1..Len(all) : all[k].category = category}
            out == listByCategory(catalog, category)
        IN  /\ Len(out) = Cardinality(mine)
            /\ \A k \in 1..Len(out) : out[k] = all[Nth(mine, k)]
            /\ (mine = {}) => out = <<>>

C16_Witness ==
    /\ Len(catalog) = 3
    /\ listByCategory(catalog, "utility") = <<Scraper(IdB, "utility").meta,
                                               Scraper(IdX, "utility").meta>>
    /\ listByCategory(catalog, "court") = <<Scraper(IdA, "court").meta>>
    /\ listByCategory(catalog, "tax") = <<>>

\* The ids of the scrapers registered at module load, in call order.
RegistrationOrder ==
    <<IdCourtDocket, IdCookCountyTax, IdMrCooper, IdPeoplesGas, IdComed,
      IdCourtNameSearch>>

\* C17: a request to /api/v1/capabilities is answered 200 whatever its
\* Authorization header (none included) without reading the service token
\* or any other key; 'scrapers' is list() of the registry, the metadata of
\* the scrapers registered at module load in call order, the same on every
\* request; the step that serves it leaves registry and store as they were.
C17_CapabilitiesReadOnly ==
    /\ [](\A p \in Reqs :
            (Received(p) /\ req[p].path = PathCapabilities) =>
                /\ pc[p] = "done"
                /\ resp[p].status = 200
                /\ resp[p].body.scrapers = list(catalog)
                /\ resp[p].body.scrapers = [i \in 1..Len(regLog) |-> regLog[i].meta]
                /\ [i \in 1..Len(resp[p].body.scrapers) |->
                        resp[p].body.scrapers[i].id] = RegistrationOrder
                /\ valid[p] = NotRead
                /\ trace[p] = <<"handler", "catalog.list">>)
    /\ [][\A p \in Reqs :
            (pc[p] = "idle" /\ pc'[p] # "idle" /\ req'[p].path = PathCapabilities) =>
                (catalog' = catalog /\ regLog' = regLog /\ kv' = kv)]_vars

C17_Witness ==
    \E p \in Reqs :
        /\ served >= 1
        /\ gapKey(IdX) \in DOMAIN kv
        /\ req[p].path = PathCapabilities
        /\ req[p].header = NoHeader
        /\ resp[p].status = 200
        /\ Len(resp[p].body.scrapers) = 6
        /\ resp[p].body.scrapers[1] = Scraper(IdCourtDocket, "court").meta
        /\ resp[p].body.scrapers[6] = Scraper(IdCourtNameSearch, "court").meta

\* C18: wrapResult(portal, true) with neither payload nor error yields data
\* and error undefined; wrapResult(portal, false, undefined, 'x') yields
\* error 'x' and data undefined; every call yields method 'scrape', the
\* portal and the success flag it was given, and the time of the call as
\* scrapedAt.
C18_WrapResultEnvelope ==
    wrapped # NoCall =>
        LET r == wrapped.result IN
        /\ DOMAIN r = {"success", "data", "error", "method", "portal", "scrapedAt"}
        /\ r.method = "scrape"
        /\ r.portal = wrapped.portal
        /\ r.success = wrapped.success
        /\ r.scrapedAt # <<>>
        /\ r.scrapedAt = toISOString(wrapped.t)
        /\ (wrapped.success /\ wrapped.data = JsUndefined /\ wrapped.error = JsUndefined)
              => (r.data = JsUndefined /\ r.error = JsUndefined)
        /\ (~wrapped.success /\ wrapped.data = JsUndefined
                /\ wrapped.error = JsString(<<"x">>))
              => (r.error = JsString(<<"x">>) /\ r.data = JsUndefined)

C18_Witness ==
    /\ wrapped # NoCall
    /\ ~wrapped.success
    /\ wrapped.data = JsUndefined
    /\ wrapped.result.error = JsString(<<"x">>)
    /\ wrapped.result.data = JsUndefined
    /\ wrapped.result.portal = TestPortal

Finished == lookup # NoCall /\ lookup.out # Running
Resolving == {i \in 1..Len(lookup.selectors) : lookup.page[i] = "element"}
FirstResolving == CHOOSE i \in Resolving : \A j \in Resolving : i <= j

\* The candidates whose lookup the call has awaited to completion.
LookedUp ==
    {i \in 1..Len(lookup.tried) : lookup.out # Running \/ i < Len(lookup.tried)}

\* No candidate up to the first resolving one (any candidate, when none
\* resolves) meets an infrastructure error.
NoInfrastructureError ==
    \A i \in 1..Len(lookup.selectors) :
        (Resolving = {} \/ i < FirstResolving) => lookup.page[i] # "closed"

\* C19: a call tries the candidates in the given order; on a page whose
\* lookups resolve, come back empty or raise a locator-syntax error, it
\* returns the first candidate that resolves, and null when none does; on
\* any page, a candidate it returns resolves and no earlier one does.
C19_FirstResolvingCandidate ==
    lookup # NoCall =>
        /\ lookup.tried = SubSeq(lookup.selectors, 1, Len(lookup.tried))
        /\ (lookup.out = Running) => lookup.i \in 1..Len(lookup.selectors)
        /\ (Finished /\ NoInfrastructureError) =>
              IF Resolving = {}
              THEN lookup.out = Returned(JsNull)
              ELSE lookup.out = Returned(JsString(lookup.selectors[FirstResolving]))
        /\ \A i \in 1..Len(lookup.selectors) :
              lookup.out = Returned(JsString(lookup.selectors[i])) =>
                  (i \in Resolving /\ i = FirstResolving)

C19_Witness ==
    /\ Finished
    /\ lookup.page = <<"syntax", "null", "element">>
    /\ lookup.out = Returned(JsString(Selector(3)))
    /\ lookup.tried = <<Selector(1), Selector(2), Selector(3)>>

\* C20: when the lookup of a candidate raises an infrastructure error
\* ('Target closed'), the call ends by throwing that error: it returns
\* neither null nor a later candidate.
C20_InfrastructureErrorPropagates ==
    Finished =>
        \A i \in LookedUp :
            lookup.page[i] = "closed" => lookup.out = Threw(Error(TargetClosed))

Acquired == run # NoCall /\ run.browserInstance
ClosedSession ==
    \E i \in 1..Len(run.calls) : run.calls[i] \in {"browser.close", "browser.close!"}

\* C21: an execution that has acquired a browser session has called
\* browserInstance.close() by the time execute completes, on every exit:
\* the successful return, each early return of a failed envelope, and an
\* exception at any step after the launch; and it closes the session once,
\* not before the body is over.
C21_SessionReleased ==
    Acquired =>
        /\ run.pc = "exited" => ClosedSession
        /\ run.pc \in {"newPage", "stage", "pageClose"} => ~ClosedSession
        /\ Cardinality({i \in 1..Len(run.calls) :
                            run.calls[i] \in {"browser.close", "browser.close!"}}) <= 1

C21_Witness ==
    /\ Acquired
    /\ run.pc = "exited"
    /\ run.exit = Exit(FALSE, "loginCheck", "throw")
    /\ run.calls = <<"page.close", "browser.close">>

\* C22: a 200 from GET /api/v1/gaps accounts for every key its list call
\* returned: the entries of 'gaps' and malformedCount add up to the number
\* of listed keys, every entry carries the portal id of a listed key, and
\* malformedCount is in the body only when it is greater than 0.
C22_EveryListedKeyAccounted ==
    \A p \in Reqs :
        (req[p].path = PathGaps /\ pc[p] = "done" /\ resp[p].status = 200) =>
            LET listed == IF "listed" \in DOMAIN pending[p]
                          THEN pending[p].listed ELSE <<>>
                body == resp[p].body
                counted == IF "malformedCount" \in DOMAIN body
                           THEN body.malformedCount ELSE 0
            IN  /\ ("malformedCount" \in DOMAIN body) => body.malformedCount > 0
                /\ Len(body.gaps) + counted = Len(listed)
                /\ \A i \in 1..Len(body.gaps) :
                      \E k \in 1..Len(listed) :
                          body.gaps[i].portalId
                              = JsString(SubSeq(listed[k], 5, Len(listed[k])))

\* C29: whatever text a gap key held before, the record a miss writes to it
\* is one the enumerator of GET /api/v1/gaps lists: a numeric count and
\* non-empty firstRequested and lastRequested.
C29_WriterEnumeratorAgree ==
    [][\A p \in Reqs :
          (pc[p] = "gapPut" /\ pc'[p] = "done" /\ kv' # kv) =>
              LET stored == KVget(kv', gapKey(req[p].portalId)) IN
              /\ Truthy(stored)
              /\ GapListed(JSONparse(stored))]_vars

\* The record stored under a gap key, parsed.
StoredGap(store, key) == JSONparse(KVget(store, key))
WellFormedGap(store, key) ==
    /\ key \in DOMAIN store
    /\ GapListed(StoredGap(store, key))

\* Request p's put succeeds in this step.
Puts(p) == pc[p] = "gapPut" /\ trace'[p] = Append(trace[p], "kv.put.gap")

\* The record p read is the one its put replaces: no write came in between.
ReadCurrent(p, key) == pending[p].seen = hist[key].puts

\* C23 (as claimed): once a well-formed record is stored for an id, no later
\* write to the id changes its firstRequested, whichever misses overlap.
C23_FirstRequestedImmutable ==
    [][\A key \in GapKeys :
          (WellFormedGap(kv, key) /\ kv'[key] # kv[key]) =>
              Prop(StoredGap(kv', key), "firstRequested")
                  = Prop(StoredGap(kv, key), "firstRequested")]_vars

\* C23 (amended): a miss whose put replaces the well-formed record it read
\* keeps that record's firstRequested.
C23_FirstRequestedKept ==
    [][\A p \in Reqs :
          LET key == gapKey(req[p].portalId) IN
          (Puts(p) /\ WellFormedGap(kv, key) /\ ReadCurrent(p, key)) =>
              Prop(StoredGap(kv', key), "firstRequested")
                  = Prop(StoredGap(kv, key), "firstRequested")]_vars

C23_Witness ==
    /\ hist[gapKey(IdX)].misses = 2
    /\ hist[gapKey(IdX)].puts = 2
    /\ "stale" \notin hist[gapKey(IdX)].flags
    /\ Prop(StoredGap(kv, gapKey(IdX)), "firstRequested") = JsString(toISOString(1))
    /\ Prop(StoredGap(kv, gapKey(IdX)), "lastRequested") = JsString(toISOString(2))

\* C24 (as claimed): with no outside writer, a stored record's count is at
\* least 1 and no write to the id stores a count lower than the one it
\* replaces.
C24_CountMonotonic ==
    [][\A key \in GapKeys :
          (key \in DOMAIN kv') =>
              /\ Prop(StoredGap(kv', key), "count").n >= 1
              /\ (key \in DOMAIN kv) =>
                    Prop(StoredGap(kv', key), "count").n
                        >= Prop(StoredGap(kv, key), "count").n]_vars

\* C24 (amended): with no outside writer, every record a miss stores has a
\* count of at least 1, and a miss whose put replaces the record it read
\* stores that record's count plus one.
C24_CountRaisedByReader ==
    [][\A p \in Reqs :
          LET key == gapKey(req[p].portalId) IN
          Puts(p) =>
              /\ Prop(StoredGap(kv', key), "count").n >= 1
              /\ (key \in DOMAIN kv /\ ReadCurrent(p, key)) =>
                    Prop(StoredGap(kv', key), "count").n
                        = Prop(StoredGap(kv, key), "count").n + 1]_vars

C24_Witness ==
    /\ hist[gapKey(IdX)].misses = 3
    /\ hist[gapKey(IdX)].puts = 3
    /\ "stale" \in hist[gapKey(IdX)].flags
    /\ StoredCount(gapKey(IdX)) = 2

\* C30 (as claimed): no write to an id stores a lastRequested earlier than
\* the one it replaces.
C30_LastRequestedMonotonic ==
    [][\A key \in GapKeys :
          (key \in DOMAIN kv /\ key \in DOMAIN kv') =>
              ~LexLess(Prop(StoredGap(kv', key), "lastRequested").s,
                       Prop(StoredGap(kv, key), "lastRequested").s)]_vars

\* C30 (amended): a miss stores the timestamp it took after its read as
\* lastRequested, and when its put replaces the record it read, that
\* timestamp is not earlier than the record's lastRequested.
C30_LastRequestedOfReader ==
    [][\A p \in Reqs :
          LET key == gapKey(req[p].portalId) IN
          Puts(p) =>
              /\ Prop(StoredGap(kv', key), "lastRequested")
                    = JsString(toISOString(pending[p].t))
              /\ (key \in DOMAIN kv /\ ReadCurrent(p, key)) =>
                    ~LexLess(Prop(StoredGap(kv', key), "lastRequested").s,
                             Prop(StoredGap(kv, key), "lastRequested").s)]_vars

C30_Witness ==
    /\ hist[gapKey(IdX)].misses = 2
    /\ hist[gapKey(IdX)].puts = 2
    /\ "stale" \in hist[gapKey(IdX)].flags
    /\ hist[gapKey(IdX)].last = 2
    /\ Prop(StoredGap(kv, gapKey(IdX)), "lastRequested") = JsString(toISOString(1))

\* C25: in one dispatch request execute is invoked at most once; an attempt
\* that returns success=false is answered with that envelope at 200, and
\* one that throws with the 500 envelope, with no second invocation.
C25_NoRetry ==
    \A p \in Reqs :
        /\ Calls(p, "execute") <= 1
        /\ Calls(p, "execute.returned") + Calls(p, "execute.threw") <= 1
        /\ (Did(p, "execute.returned") /\ ~pending[p].result.success) =>
              /\ pc[p] = "done"
              /\ resp[p].status = 200
              /\ resp[p].body.success = FALSE
              /\ resp[p].body.error = pending[p].result.error
        /\ Did(p, "execute.threw") =>
              /\ pc[p] = "done"
              /\ resp[p].status = 500
              /\ resp[p].body.success = FALSE

C25_Witness ==
    \E p \in Reqs :
        /\ trace[p] = <<"kv.get.token", "handler", "catalog.get", "req.json",
                        "execute", "execute.threw">>
        /\ pc[p] = "done"
        /\ resp[p].status = 500

Populated(v) == v \notin {JsUndefined, JsNull, JsString(<<>>)}

\* C26 (as claimed): no envelope built by wrapResult has both data and
\* error populated, whatever it is passed.
C26_NeverBothPopulated ==
    wrapped # NoCall =>
        ~(Populated(wrapped.result.data) /\ Populated(wrapped.result.error))

\* C26 (amended): wrapResult stores data and error as they are passed; the
\* envelope has both populated exactly when it is passed both, so it has at
\* most one whenever the caller passes at most one; a successful envelope
\* may have neither.
C26_BothOnlyWhenPassedBoth ==
    wrapped # NoCall =>
        LET r == wrapped.result IN
        /\ r.data = wrapped.data
        /\ r.error = wrapped.error
        /\ (Populated(r.data) /\ Populated(r.error))
              <=> (Populated(wrapped.data) /\ Populated(wrapped.error))
        /\ (~Populated(wrapped.data) \/ ~Populated(wrapped.error))
              => ~(Populated(r.data) /\ Populated(r.error))

C26_Witness ==
    /\ wrapped # NoCall
    /\ wrapped.success
    /\ wrapped.data = JsUndefined
    /\ wrapped.error = JsUndefined
    /\ wrapped.result.success
    /\ ~Populated(wrapped.result.data)
    /\ ~Populated(wrapped.result.error)

Credentialed(p) ==
    /\ req[p].header.present
    /\ StartsWith(req[p].header.value, BearerPrefix)
    /\ "chars" \in DOMAIN valid[p]
    /\ valid[p].chars # <<>>
    /\ Slice(req[p].header.value, BearerPrefixLen) = valid[p].chars

GapAccesses == {"kv.get.gap", "kv.get.gap!", "kv.put.gap", "kv.put.gap!"}

NoDispatchEffects(p) ==
    /\ \A i \in 1..Len(trace[p]) : trace[p][i] = "kv.get.token"
    /\ pc[p] \notin {"gapGet", "gapPut", "body", "exec"}
    /\ pending[p] = NoPending
    /\ \A key \in GapKeys : hist[key].puts = 0 /\ hist[key].misses = 0
    /\ \A key \in GapKeys :
          key \in DOMAIN kv =>
              kv[key] = JSONstringify(FreshGap(toISOString(1)))

\* C27: a dispatch request that the gate answers 401, 403 or 503, and any
\* dispatch request that does not carry the stored token, gets no further
\* than the gate: no gap record is read, created or incremented, the body
\* is not parsed and no plugin runs, whatever the portal id.
C27_AdmissionPrecedesDispatch ==
    \A p \in Reqs :
        (Received(p) /\ req[p].path = PathScrape) =>
            /\ (pc[p] = "done" /\ resp[p].status \in {401, 403, 503})
                  => NoDispatchEffects(p)
            /\ ~Credentialed(p) => NoDispatchEffects(p)

C27_Witness ==
    \E p \in Reqs :
        /\ req[p].path = PathScrape
        /\ req[p].portalId = IdX
        /\ req[p].header = Bearer(<<"a">>)
        /\ valid[p] = [chars |-> GoodToken]
        /\ pc[p] = "done"
        /\ resp[p].status = 403
        /\ trace[p] = <<"kv.get.token">>
        /\ gapKey(IdX) \notin DOMAIN kv

\* C28: every key in the store other than the service token's is 'gap:'
\* followed by a well-formed, unregistered id; and a dispatch to a
\* registered id never reads or writes a gap key, whether it is answered
\* 200, 400 or 500.
C28_GapKeysOnlyForMisses ==
    /\ \A key \in DOMAIN kv \ {ServiceTokenKey} :
          \E id \in AllIds :
              /\ key = gapKey(id)
              /\ WellFormedId(id)
              /\ ~Registered(id)
    /\ \A p \in Reqs :
          (Received(p) /\ Hit(p)) =>
              /\ pc[p] \notin {"gapGet", "gapPut"}
              /\ \A i \in 1..Len(trace[p]) : trace[p][i] \notin GapAccesses

C28_Witness ==
    /\ gapKey(IdX) \in DOMAIN kv
    /\ hist[gapKey(IdX)].puts = 1
    /\ \E p \in Reqs :
          /\ Hit(p)
          /\ pc[p] = "done"
          /\ resp[p].status = 500
          /\ trace[p] = <<"kv.get.token", "handler", "catalog.get", "req.json",
                          "execute", "execute.threw">>
====
